---- MODULE Spec2Model ----
(***************************************************************************)
(* FuzzyAnomalyDetector (src/fuzzy_anomaly_system.py): a Mamdani fuzzy     *)
(* inference system built on scikit-fuzzy's control API.                   *)
(*                                                                         *)
(* Numbers.  Floats are modelled as exact rationals on fixed scales:       *)
(*   - an input value is a count of tenths       (0..10  is [0, 1]);       *)
(*   - an input membership degree is in twelfths (0..12  is [0, 1]);       *)
(*   - an output abscissa is in sixtieths        (0..600 is [0, 10]);      *)
(*   - an output membership degree is in 1/720   (0..720 is [0, 1]);       *)
(*   - a crisp value is a reduced fraction <<n, d>> of sixtieths, and      *)
(*     <<0, 0>> is the float NaN.                                          *)
(* With inputs on the tenths grid every quantity below is an integer.      *)
(*                                                                         *)
(* Library.  evaluate delegates inference to scikit-fuzzy (np.clip,        *)
(* fuzz.trimf, ctrl.Rule, ControlSystemSimulation.compute,                 *)
(* fuzz.interp_membership).  Those calls are modelled by what the library  *)
(* does with its defaults: and_func np.fmin, accumulation np.fmax,         *)
(* centroid defuzzification over the universe upsampled at the cuts,       *)
(* clip_to_bounds and cache switched on, and a ValueError from compute()   *)
(* when the aggregated set is empty.  The simulation's periodic flush of   *)
(* its cache (every 1000 runs) lies beyond the bounds and is left out.     *)
(***************************************************************************)
EXTENDS Integers, Sequences, FiniteSets, TLC

VARIABLES
    nanMode,      \* how the installed scikit-fuzzy stores a NaN input
    simulator,    \* self.simulator, the ControlSystemSimulation
    ncalls,       \* evaluate calls made so far by the sequential caller
    args,         \* arguments of the last sequential call
    result,       \* outcome of the last sequential call
    pc,           \* per thread: position inside evaluate
    targs,        \* per thread: arguments of its call
    tlocal,       \* per thread: the locals fe, vc, cc of evaluate
    tresult,      \* per thread: outcome of its call
    probe         \* label extraction applied to a crisp value on its own

vars == <<nanMode, simulator, ncalls, args, result, pc, targs, tlocal, tresult, probe>>

----------------------------------------------------------------------------
(* Values *)

PosInf == <<"inf", 1>>
NegInf == <<"inf", -1>>
NaN    == <<"nan", 0>>
Fin(i) == <<"fin", i>>
None   == <<"none", 0>>

IsFinite(v) == v[1] = "fin"

Min2(a, b) == IF a <= b THEN a ELSE b
Max2(a, b) == IF a >= b THEN a ELSE b

RECURSIVE GCD(_, _)
GCD(a, b) == IF b = 0 THEN a ELSE GCD(b, a % b)

\* float(n / d) as a reduced fraction
Ratio(n, d) == LET g == GCD(n, d) IN <<n \div g, d \div g>>

----------------------------------------------------------------------------
(* Membership functions (_define_membership_functions) *)

\* fuzz.trimf sampled on a universe and read back by interp_membership:
\* the triangle abc at x, on the scale where full membership is `one`.
Trimf(x, abc, one) ==
    LET a == abc[1]
        b == abc[2]
        c == abc[3]
    IN  IF x = b THEN one
        ELSE IF a < x /\ x < b THEN (one * (x - a)) \div (b - a)
        ELSE IF b < x /\ x < c THEN (one * (c - x)) \div (c - b)
        ELSE 0

InputTerms == [low |-> <<0, 0, 4>>, medium |-> <<2, 5, 8>>, high |-> <<6, 10, 10>>]

\* self.anomaly_level.terms, in registration order
TermOrder == <<"normal", "slightly_anomalous", "moderately_anomalous", "strongly_anomalous">>

OutputTerms == [normal |-> <<0, 0, 180>>,
                slightly_anomalous |-> <<60, 180, 300>>,
                moderately_anomalous |-> <<180, 300, 420>>,
                strongly_anomalous |-> <<360, 600, 600>>]

----------------------------------------------------------------------------
(* Rule base (_define_rules).  "any" marks a variable the rule leaves out. *)

R(fe, vc, cc, out, label) == [ante |-> <<fe, vc, cc>>, cons |-> out, label |-> label]

Rules == <<
    R("low",    "low",    "low",    "normal",               "R1_normal_all_low"),
    R("medium", "low",    "low",    "slightly_anomalous",   "R2_slightly_anom_medium_fe"),
    R("low",    "medium", "low",    "slightly_anomalous",   "R3_slightly_anom_medium_vc"),
    R("low",    "low",    "medium", "slightly_anomalous",   "R4_slightly_anom_medium_cc"),
    R("medium", "medium", "any",    "moderately_anomalous", "R5_moderate_fe_vc"),
    R("medium", "any",    "medium", "moderately_anomalous", "R6_moderate_fe_cc"),
    R("any",    "medium", "medium", "moderately_anomalous", "R7_moderate_vc_cc"),
    R("high",   "high",   "any",    "strongly_anomalous",   "R8_strong_fe_vc"),
    R("high",   "any",    "high",   "strongly_anomalous",   "R9_strong_fe_cc"),
    R("any",    "high",   "high",   "strongly_anomalous",   "R10_strong_vc_cc"),
    R("high",   "medium", "any",    "strongly_anomalous",   "R11_high_fe_medium_vc"),
    R("medium", "high",   "any",    "strongly_anomalous",   "R12_medium_fe_high_vc"),
    R("high",   "any",    "medium", "strongly_anomalous",   "R13_high_fe_medium_cc"),
    R("any",    "high",   "medium", "strongly_anomalous",   "R14_high_vc_medium_cc") >>

\* membership degree (twelfths) of input value x (tenths) in an input term
Fuzzify(x, term) == Trimf(x, InputTerms[term], 12)

\* the | of two antecedent terms, np.fmax, in the place of the &
FuzzyOr(a, b) == Max2(a, b)

\* the & of two antecedent terms: scikit-fuzzy's default and_func, np.fmin
FuzzyAnd(a, b) == Min2(a, b)

\* firing strength of a rule for the input triple inp (tenths)
Firing(rule, inp) ==
    LET deg(i) == IF rule.ante[i] = "any" THEN 12 ELSE Fuzzify(inp[i], rule.ante[i])
    IN  FuzzyAnd(FuzzyAnd(deg(1), deg(2)), deg(3))

AllFirings(inp) == [k \in 1..Len(Rules) |-> Firing(Rules[k], inp)]

----------------------------------------------------------------------------
(* simulator.compute(): accumulation, aggregation, defuzzification *)

\* A term's membership_value is -1 while it is None.
Unset == -1

\* compute_rule for rules k..14: each consequent term accumulates the
\* activations of its rules with the accumulation method np.fmax.
RECURSIVE Accumulate(_, _, _)
Accumulate(mv, firing, k) ==
    IF k > Len(Rules) THEN mv
    ELSE LET t == Rules[k].cons
             v == IF mv[t] = Unset THEN firing[k] ELSE Max2(firing[k], mv[t])
         IN  Accumulate([mv EXCEPT ![t] = v], firing, k + 1)

\* compute() clears only the consequent of the first rule before the loop;
\* the other terms keep what an earlier run under the same unique_id left.
TermCuts(prev, firing) ==
    Accumulate([prev EXCEPT ![Rules[1].cons] = Unset], firing, 1)

NoCuts == [t \in DOMAIN OutputTerms |-> Unset]

\* a cut (twelfths) on the output membership scale
Cut720(c) == 60 * c

\* abscissas where a term's triangle meets its cut: the points that
\* find_memberships adds to the universe
Crossings(t, c) ==
    LET abc == OutputTerms[t]
    IN  { abc[1] + (Cut720(c) * (abc[2] - abc[1])) \div 720,
          abc[3] - (Cut720(c) * (abc[3] - abc[2])) \div 720 }

ExtraPoints(cuts) ==
    UNION { Crossings(t, cuts[t]) : t \in { u \in DOMAIN OutputTerms : cuts[u] # Unset } }

\* aggregated output membership at x: max over terms of the clipped triangle
Aggregated(x, cuts) ==
    LET clipped(i) == LET t == TermOrder[i]
                      IN  IF cuts[t] = Unset THEN 0
                          ELSE Min2(Cut720(cuts[t]), Trimf(x, OutputTerms[t], 720))
    IN  Max2(Max2(clipped(1), clipped(2)), Max2(clipped(3), clipped(4)))

\* one trapezoid of fuzz.centroid: <<6 * moment * area, 6 * area>>
Trapezoid(x1, x2, cuts) ==
    LET y1 == Aggregated(x1, cuts)
        y2 == Aggregated(x2, cuts)
    IN  << (x2 - x1) * (x1 * (2 * y1 + y2) + x2 * (y1 + 2 * y2)),
           3 * (x2 - x1) * (y1 + y2) >>

Plus(p, q) == <<p[1] + q[1], p[2] + q[2]>>

SetMin(S) == CHOOSE m \in S : \A s \in S : m <= s

\* the trapezoids between lo and hi, split at the extra points P inside
RECURSIVE CellSum(_, _, _, _)
CellSum(lo, hi, P, cuts) ==
    IF P = {} THEN Trapezoid(lo, hi, cuts)
    ELSE LET m == SetMin(P)
         IN  Plus(Trapezoid(lo, m, cuts), CellSum(m, hi, P \ {m}, cuts))

\* np.linspace(0, 10, 101) in sixtieths: 0, 6, ..., 600
GridStep == 2 * 3

\* the trapezoids of cells i..j, summed by halving the range
RECURSIVE SumCells(_, _, _, _)
SumCells(i, j, extra, cuts) ==
    IF i = j
    THEN CellSum(GridStep * i, GridStep * i + GridStep,
                 { p \in extra : GridStep * i < p /\ p < GridStep * i + GridStep }, cuts)
    ELSE LET mid == (i + j) \div 2
         IN  Plus(SumCells(i, mid, extra, cuts), SumCells(mid + 1, j, extra, cuts))

\* fuzz.defuzz asserts the truth degrees do not sum to zero
ZeroTruthDegree(cuts) ==
    /\ \A i \in 0..100 : Aggregated(GridStep * i, cuts) = 0
    /\ \A p \in ExtraPoints(cuts) : Aggregated(p, cuts) = 0

\* fuzz.centroid over the upsampled universe
Centroid(cuts) ==
    LET s == SumCells(0, 99, ExtraPoints(cuts), cuts)
    IN  Ratio(s[1], s[2])

\* CrispValueCalculator.defuzz: the crisp value, or the error that the
\* library raises when the aggregated set is empty
Defuzz(cuts) ==
    IF ZeroTruthDegree(cuts)
    THEN [raised |-> TRUE, crisp |-> <<-1, 1>>]
    ELSE [raised |-> FALSE, crisp |-> Centroid(cuts)]

\* Defuzz tabulated once over the cuts that inputs on the tenths grid give
GridCuts ==
    { TermCuts(NoCuts, AllFirings(<<fe, vc, cc>>)) :
          fe \in 0..10, vc \in 0..10, cc \in 0..10 }

DefuzzTable == [cuts \in GridCuts |-> Defuzz(cuts)]

Defuzzify(cuts) == IF cuts \in GridCuts THEN DefuzzTable[cuts] ELSE Defuzz(cuts)

----------------------------------------------------------------------------
(* Label extraction (evaluate, lines 201-208) *)

\* interp_membership of an output term at the crisp value n/d, times 720*d
MembershipAt(crisp, t) ==
    LET n == crisp[1]
        d == crisp[2]
        a == OutputTerms[t][1]
        b == OutputTerms[t][2]
        c == OutputTerms[t][3]
    IN  IF n = b * d THEN 720 * d
        ELSE IF a * d < n /\ n < b * d THEN (720 \div (b - a)) * (n - a * d)
        ELSE IF b * d < n /\ n < c * d THEN (720 \div (c - b)) * (c * d - n)
        ELSE 0

\* the last key, in dict order, whose value no other key exceeds
DominantLabelLast(crisp) ==
    IF crisp[2] = 0 THEN TermOrder[1]
    ELSE LET m(i) == MembershipAt(crisp, TermOrder[i])
             best == CHOOSE i \in 1..Len(TermOrder) :
                        /\ \A j \in 1..Len(TermOrder) : m(j) <= m(i)
                        /\ \A j \in (i + 1)..Len(TermOrder) : m(j) < m(i)
         IN  TermOrder[best]

\* max(membership_values, key=membership_values.get): the first key, in
\* dict order, whose value no other key exceeds
DominantLabel(crisp) ==
    IF crisp[2] = 0 THEN TermOrder[1]
    ELSE LET m(i) == MembershipAt(crisp, TermOrder[i])
             best == CHOOSE i \in 1..Len(TermOrder) :
                        /\ \A j \in 1..Len(TermOrder) : m(j) <= m(i)
                        /\ \A j \in 1..(i - 1) : m(j) < m(i)
         IN  TermOrder[best]

----------------------------------------------------------------------------
(* The simulator: state that scikit-fuzzy keeps on self.simulator.  State  *)
(* that the library files per simulation is keyed by the simulation's      *)
(* unique_id, a hash of the current inputs: the input triple stands for it.*)

NoCrisp == <<-1, 1>>

FreshSimulator ==
    [ input      |-> <<None, None, None>>,   \* simulator.input
      output     |-> NoCrisp,                \* simulator.output["anomaly_level"]
      calculated |-> {},                     \* simulator._calculated
      stored     |-> <<>>,                   \* anomaly_level.output[simulator]
      membership |-> <<>>,                   \* term.membership_value[simulator]
      firing     |-> <<>> ]                  \* rule.aggregate_firing[simulator]

NanModes == {"propagate", "clamp"}

\* np.clip(x, 0.0, 1.0) followed by float()
Clip(v) ==
    IF v = NaN THEN NaN
    ELSE IF v = PosInf THEN Fin(10)
    ELSE IF v = NegInf THEN Fin(0)
    ELSE Fin(Min2(Max2(v[2], 0), 10))

\* per-simulation state filed under the simulation alone, whatever its inputs
UniqueIdPerSimulation(input) == <<>>

\* the key under which the library files per-simulation state
UniqueId(input) == input

\* simulator.input[name] = v.  The simulation clips to the universe's bounds;
\* a release that does so with np.fmin/np.fmax turns a NaN into the upper
\* bound, a release that uses np.clip stores the NaN.
SetInput(sim, i, v) ==
    LET w == IF v = NaN
             THEN IF nanMode = "clamp" THEN Fin(10) ELSE NaN
             ELSE Fin(Min2(Max2(v[2], 0), 10))
    IN  [sim EXCEPT !.input[i] = w]

Put(f, k, v) == (k :> v) @@ f

\* simulator.compute()
Compute(sim) ==
    LET id == UniqueId(sim.input)
    IN  IF \E i \in 1..3 : sim.input[i] = None
        THEN [sim |-> sim, raised |-> TRUE]
        ELSE IF \E i \in 1..3 : sim.input[i] = NaN
        THEN [sim |-> [sim EXCEPT !.output = <<0, 0>>], raised |-> FALSE]
        ELSE IF id \in sim.calculated
        THEN [sim |-> [sim EXCEPT !.output = sim.stored[id]], raised |-> FALSE]
        ELSE LET inp    == <<sim.input[1][2], sim.input[2][2], sim.input[3][2]>>
                 firing == AllFirings(inp)
                 prev   == IF id \in DOMAIN sim.membership
                           THEN sim.membership[id] ELSE NoCuts
                 cuts   == TermCuts(prev, firing)
                 sim1   == [sim EXCEPT !.firing = Put(@, id, firing),
                                       !.membership = Put(@, id, cuts)]
                 d      == Defuzzify(cuts)
             IN  IF d.raised
                 THEN [sim |-> sim1, raised |-> TRUE]
                 ELSE [sim |-> [sim1 EXCEPT !.output = d.crisp,
                                            !.stored = Put(@, id, d.crisp),
                                            !.calculated = @ \cup {id}],
                       raised |-> FALSE]

----------------------------------------------------------------------------
(* evaluate *)

NoResult   == [kind |-> "none",  crisp |-> NoCrisp, label |-> "", exc |-> ""]
Raised(e)  == [kind |-> "error", crisp |-> NoCrisp, label |-> "", exc |-> e]
Returned(c, l) == [kind |-> "ok", crisp |-> c, label |-> l, exc |-> ""]

\* lines 199-210: read the simulator's output and extract the label
ReadResult(sim) ==
    IF sim.output = NoCrisp THEN Raised("KeyError")
    ELSE Returned(sim.output, DominantLabel(sim.output))

\* evaluate as it would be if it validated its arguments' range instead of
\* clipping them
CallRejecting(sim, a) ==
    IF \E i \in 1..3 : a[i][1] = "fin" /\ (a[i][2] < 0 \/ a[i][2] > 10)
    THEN [sim |-> sim, result |-> Raised("ValueError")]
    ELSE LET s1 == SetInput(sim, 1, Clip(a[1]))
             s2 == SetInput(s1, 2, Clip(a[2]))
             s3 == SetInput(s2, 3, Clip(a[3]))
             c  == Compute(s3)
         IN  [sim |-> c.sim,
              result |-> IF c.raised THEN Raised("ValueError") ELSE ReadResult(c.sim)]

\* the whole of evaluate(a[1], a[2], a[3]) run without interruption
Call(sim, a) ==
    LET s1 == SetInput(sim, 1, Clip(a[1]))
        s2 == SetInput(s1, 2, Clip(a[2]))
        s3 == SetInput(s2, 3, Clip(a[3]))
        c  == Compute(s3)
    IN  [sim |-> c.sim,
         result |-> IF c.raised THEN Raised("ValueError") ELSE ReadResult(c.sim)]

----------------------------------------------------------------------------
(* Bounds and input sets *)

MaxCalls == 3
Margin   == 2
NThreads == 2

\* raw arguments of a single call: every tenth from a little below 0 to a
\* little above 1, the out-of-range values -1 and 2, and the non-finite floats
FiniteArgs == { Fin(i) : i \in ((0 - Margin)..(10 + Margin)) \cup {-10, 20} }
RawArgs    == FiniteArgs \cup {NaN, PosInf, NegInf}

\* arguments of the calls of a longer history
SeqArgs    == { Fin(0), Fin(5), Fin(10) }

\* arguments of the concurrent calls
ThreadArgs == { <<Fin(0), Fin(0), Fin(0)>>, <<Fin(10), Fin(10), Fin(10)>>,
                <<Fin(5), Fin(3), Fin(0)>>, <<Fin(0), Fin(10), Fin(0)>> }

Threads == 1..NThreads

\* crisp values handed to the label extraction on its own: every sixtieth
\* of the output domain and every value that compute() gives on the grid
ProbeCrisps ==
    { <<n, 1>> : n \in 0..600 } \cup
    { DefuzzTable[c].crisp : c \in { g \in GridCuts : ~DefuzzTable[g].raised } }

Pending == "pending"

Init ==
    /\ nanMode \in NanModes
    /\ simulator = FreshSimulator
    /\ ncalls = 0
    /\ args = <<None, None, None>>
    /\ result = NoResult
    /\ pc = [t \in Threads |-> "idle"]
    /\ targs = [t \in Threads |-> <<None, None, None>>]
    /\ tlocal = [t \in Threads |-> <<None, None, None>>]
    /\ tresult = [t \in Threads |-> NoResult]
    /\ probe = [crisp |-> NoCrisp, label |-> Pending]

threadVars == <<pc, targs, tlocal, tresult>>

\* one evaluate call by a sequential caller
Evaluate(a) ==
    /\ LET c == Call(simulator, a)
       IN  /\ simulator' = c.sim
           /\ result' = c.result
    /\ args' = a
    /\ ncalls' = ncalls + 1
    /\ UNCHANGED <<nanMode, threadVars, probe>>

\* a sequence of calls on one detector
EvaluateSeq ==
    /\ ncalls < MaxCalls
    /\ \E fe \in SeqArgs, vc \in SeqArgs, cc \in SeqArgs : Evaluate(<<fe, vc, cc>>)

\* the first call on a new detector, with any arguments
EvaluateAny ==
    /\ ncalls = 0
    /\ \E fe \in RawArgs, vc \in RawArgs, cc \in RawArgs : Evaluate(<<fe, vc, cc>>)

Next == EvaluateSeq
Spec == Init /\ [][Next]_vars

NextOne == EvaluateAny
SpecOne == Init /\ [][NextOne]_vars

----------------------------------------------------------------------------
(* Label extraction on its own *)

ExtractLabel ==
    /\ probe.label = Pending
    /\ \E c \in ProbeCrisps : probe' = [crisp |-> c, label |-> DominantLabel(c)]
    /\ UNCHANGED <<nanMode, simulator, ncalls, args, result, threadVars>>

NextLabel == ExtractLabel
SpecLabel == Init /\ [][NextLabel]_vars

----------------------------------------------------------------------------
(* Threads calling evaluate on one detector without a lock.  A thread can  *)
(* be preempted between any two statements of evaluate.                    *)

\* lines 189-191
Start(t) ==
    /\ pc[t] = "idle"
    /\ \E a \in ThreadArgs :
          /\ targs' = [targs EXCEPT ![t] = a]
          /\ tlocal' = [tlocal EXCEPT ![t] = <<Clip(a[1]), Clip(a[2]), Clip(a[3])>>]
    /\ pc' = [pc EXCEPT ![t] = "set_fe"]
    /\ UNCHANGED <<nanMode, simulator, ncalls, args, result, tresult, probe>>

\* lines 193, 194, 195
WriteInput(t, here, i, there) ==
    /\ pc[t] = here
    /\ simulator' = SetInput(simulator, i, tlocal[t][i])
    /\ pc' = [pc EXCEPT ![t] = there]
    /\ UNCHANGED <<nanMode, ncalls, args, result, targs, tlocal, tresult, probe>>

SetFe(t) == WriteInput(t, "set_fe", 1, "set_vc")
SetVc(t) == WriteInput(t, "set_vc", 2, "set_cc")
SetCc(t) == WriteInput(t, "set_cc", 3, "compute")

\* line 197
ComputeStep(t) ==
    /\ pc[t] = "compute"
    /\ LET c == Compute(simulator)
       IN  /\ simulator' = c.sim
           /\ IF c.raised
              THEN /\ tresult' = [tresult EXCEPT ![t] = Raised("ValueError")]
                   /\ pc' = [pc EXCEPT ![t] = "done"]
              ELSE /\ tresult' = tresult
                   /\ pc' = [pc EXCEPT ![t] = "read"]
    /\ UNCHANGED <<nanMode, ncalls, args, result, targs, tlocal, probe>>

\* lines 199-210
ReadOutput(t) ==
    /\ pc[t] = "read"
    /\ tresult' = [tresult EXCEPT ![t] = ReadResult(simulator)]
    /\ pc' = [pc EXCEPT ![t] = "done"]
    /\ UNCHANGED <<nanMode, simulator, ncalls, args, result, targs, tlocal, probe>>

NextThreads ==
    \E t \in Threads :
        \/ Start(t)
        \/ SetFe(t)
        \/ SetVc(t)
        \/ SetCc(t)
        \/ ComputeStep(t)
        \/ ReadOutput(t)

SpecThreads == Init /\ [][NextThreads]_vars

----------------------------------------------------------------------------
(* Properties *)

\* what evaluate(a) gives on a detector that has just been built
Alone(a) == Call(FreshSimulator, a).result

AllFinite(a) == \A i \in 1..3 : IsFinite(a[i])

\* np.clip's clamp into [0, 1], stated on its own
Clamped(v) == Fin(IF v[2] < 0 THEN 0 ELSE IF v[2] > 10 THEN 10 ELSE v[2])

\* a crisp value within the output domain [0, 10]
InOutputDomain(c) == c[2] > 0 /\ 0 <= c[1] /\ c[1] <= 600 * c[2]

TermNames == { TermOrder[i] : i \in 1..Len(TermOrder) }

\* the simulator's inputs after a call with finite arguments, in tenths
CurrentInput == <<simulator.input[1][2], simulator.input[2][2], simulator.input[3][2]>>

\* C1: for every triple of finite arguments, evaluate returns normally with
\* a crisp value in [0, 10] and one of the four output terms as label.
C1_FiniteInputsReturnInRange ==
    (ncalls > 0 /\ AllFinite(args)) =>
        /\ result.kind = "ok"
        /\ InOutputDomain(result.crisp)
        /\ result.label \in TermNames

\* C2: whatever the interleaving, a thread that has finished evaluate holds
\* the result that a call with its own arguments gives when run alone.
C2_ConcurrentCallsIsolated ==
    \A t \in Threads : pc[t] = "done" => tresult[t] = Alone(targs[t])

\* C3: when none of the 14 rules fires for the clipped inputs, evaluate does
\* not end in an error: it returns a fallback crisp value in [0, 10] and a label.
C3_NoRuleFiresFallback ==
    (/\ ncalls > 0
     /\ AllFinite(args)
     /\ \A k \in 1..Len(Rules) : Firing(Rules[k], CurrentInput) = 0) =>
        /\ result.kind = "ok"
        /\ InOutputDomain(result.crisp)
        /\ result.label \in TermNames

\* C4: after any sequence of earlier calls, failed ones included, a call
\* gives what the same call gives on a freshly built detector.
C4_HistoryIndependent ==
    ncalls > 0 => result = Alone(args)

\* a later call returned normally on a detector that holds a cached result
\* and the leftovers of an earlier call that failed
C4_Witness ==
    /\ ncalls >= 2
    /\ result.kind = "ok"
    /\ result = Alone(args)
    /\ simulator.calculated # {}
    /\ \E id \in DOMAIN simulator.membership : id \notin simulator.calculated

\* C5: for finite arguments evaluate(fe, vc, cc) gives the outcome of
\* evaluate(clip(fe), clip(vc), clip(cc)); in particular evaluate(-1, 2, 0.5)
\* gives the outcome of evaluate(0, 1, 0.5).
C5_ClippingEquivalence ==
    (ncalls > 0 /\ AllFinite(args)) =>
        /\ result = Alone(<<Clamped(args[1]), Clamped(args[2]), Clamped(args[3])>>)
        /\ args = <<Fin(-10), Fin(20), Fin(5)>> =>
               result = Alone(<<Fin(0), Fin(10), Fin(5)>>)

\* evaluate(-1, 2, 0.5) returned what evaluate(0, 1, 0.5) returns
C5_Witness ==
    /\ ncalls > 0
    /\ args = <<Fin(-10), Fin(20), Fin(5)>>
    /\ result.kind = "ok"
    /\ result = Alone(<<Fin(0), Fin(10), Fin(5)>>)

\* C6: a call with a NaN or infinite argument raises InvalidInputError.
C6_NonFiniteRejected ==
    (ncalls > 0 /\ ~AllFinite(args)) => result = Raised("InvalidInputError")

\* C7: whenever one input has positive 'high' membership and another has
\* positive 'medium' membership, some strongly_anomalous rule fires with
\* positive strength.
C7_HighWithMediumFiresStrong ==
    (/\ ncalls > 0
     /\ AllFinite(args)
     /\ \E i \in 1..3, j \in 1..3 :
           /\ i # j
           /\ Fuzzify(CurrentInput[i], "high") > 0
           /\ Fuzzify(CurrentInput[j], "medium") > 0) =>
        \E k \in 1..Len(Rules) :
            /\ Rules[k].cons = "strongly_anomalous"
            /\ simulator.firing[UniqueId(simulator.input)][k] > 0

\* C8: evaluate(0, 0, 0) returns normal with a crisp value below 3, and
\* evaluate(1, 1, 1) returns strongly_anomalous with a crisp value above 7.
C8_EndpointSanity ==
    /\ (ncalls > 0 /\ args = <<Fin(0), Fin(0), Fin(0)>>) =>
           /\ result.kind = "ok"
           /\ result.label = "normal"
           /\ result.crisp[1] < 180 * result.crisp[2]
    /\ (ncalls > 0 /\ args = <<Fin(10), Fin(10), Fin(10)>>) =>
           /\ result.kind = "ok"
           /\ result.label = "strongly_anomalous"
           /\ result.crisp[1] > 420 * result.crisp[2]

\* evaluate(1, 1, 1) has returned strongly_anomalous
C8_Witness ==
    /\ ncalls > 0
    /\ args = <<Fin(10), Fin(10), Fin(10)>>
    /\ result.kind = "ok"
    /\ result.label = "strongly_anomalous"

\* position of an output term in registration order
TermIndex(t) == CHOOSE i \in 1..Len(TermOrder) : TermOrder[i] = t

\* C9: the label is an output term of maximal membership at the crisp
\* value, and among the terms that tie for the maximum the one registered
\* first.
C9_LabelIsFirstArgmax ==
    probe.label # Pending =>
        /\ probe.label \in TermNames
        /\ \A t \in TermNames :
              MembershipAt(probe.crisp, t) <= MembershipAt(probe.crisp, probe.label)
        /\ \A t \in TermNames :
              TermIndex(t) < TermIndex(probe.label) =>
                  MembershipAt(probe.crisp, t) < MembershipAt(probe.crisp, probe.label)

\* at crisp value 1.8 normal and slightly_anomalous tie, and normal is returned
C9_Witness ==
    /\ probe.crisp = <<108, 1>>
    /\ MembershipAt(probe.crisp, "normal") = MembershipAt(probe.crisp, "slightly_anomalous")
    /\ MembershipAt(probe.crisp, "normal") > 0
    /\ probe.label = "normal"

\* C10: a call to evaluate leaves the state stored on the detector, the
\* simulator's input and output buffers included, unchanged.
C10_DetectorReadOnly ==
    [][simulator' = simulator]_vars

====
